---- MODULE Spec2Model ----
(***************************************************************************)
(* Translation engines of the Ebook-Translator plugin: the Base engine's   *)
(* API-key pool and translate() orchestration (engines/base.py), the       *)
(* classic chat engine (engines/openai.py) and the Responses-native engine *)
(* (engines/openai_new.py).                                                *)
(*                                                                         *)
(* Text is a sequence of one-character strings, so that Python's substring *)
(* test, startswith and concatenation are computed, not assumed.  A value  *)
(* that may be missing from a mapping (config.get(key, default)) is kept   *)
(* as a sequence of length 0 (missing) or 1 (present).                     *)
(***************************************************************************)
EXTENDS Integers, Sequences, FiniteSets, TLC

\* ---------------------------------------------------------------- bounds
MaxKeys == 3
MaxCalls == 2
MaxLines == 3
MaxIncomplete == 1
MaxSegments == 2
MaxPeers == 2
MaxEntries == 2

\* ----------------------------------------------------------------- texts
None == "None"

Sig401 ==
  <<"4","0","1">>

SigUnauthorized ==
  <<"u","n","a","u","t","h","o","r","i","z","e","d">>

SigQuota ==
  <<"q","u","o","t","a">>

Sep ==
  <<"\n","\n">>

TbPrefix ==
  <<"T","r","a","c","e","b","a","c","k",":"," ">>

Http401 ==
  <<"H","T","T","P"," ","E","r","r","o","r"," ","4","0","1">>

Http500 ==
  <<"H","T","T","P"," ","E","r","r","o","r"," ","5","0","0">>

BodyQuota ==
  <<"q","u","o","t","a"," ","e","x","c","e","e","d","e","d">>

BodyBusy ==
  <<"b","u","s","y">>

UrlTimedOut ==
  <<"t","i","m","e","d"," ","o","u","t">>

UrlTunnel401 ==
  <<"t","u","n","n","e","l"," ","f","a","i","l","e","d",":"," ","4","0","1">>

ModelGpt4o ==
  <<"g","p","t","-","4","o">>

ModelO4Mini ==
  <<"o","4","-","m","i","n","i">>

ModelO3 ==
  <<"o","3">>

PrefixO1 ==
  <<"o","1">>

PrefixO3 ==
  <<"o","3">>

PrefixO4 ==
  <<"o","4">>

RawChatOk ==
  <<"{","\"","c","h","o","i","c","e","s","\"",":","[","{","\"","m","e","s",
    "s","a","g","e","\"",":","{","\"","c","o","n","t","e","n","t","\"",":",
    "\"","B","o","n","j","o","u","r","\"","}","}","]","}">>

RawRespOk ==
  <<"{","\"","o","u","t","p","u","t","\"",":","[","{","\"","t","y","p","e",
    "\"",":","\"","m","e","s","s","a","g","e","\"",",","\"","r","o","l","e",
    "\"",":","\"","a","s","s","i","s","t","a","n","t","\"",",","\"","c","o",
    "n","t","e","n","t","\"",":","[","{","\"","t","y","p","e","\"",":","\"",
    "o","u","t","p","u","t","_","t","e","x","t","\"",",","\"","t","e","x",
    "t","\"",":","\"","B","o","n","j","o","u","r","\"","}","]","}","]","}">>

RawHtml401 ==
  <<"<","h","t","m","l",">","4","0","1","<","/","h","t","m","l",">">>

RawOther ==
  <<"{","\"","i","d","\"",":","\"","r","1","\"","}">>

ErrJson ==
  <<"E","x","p","e","c","t","i","n","g"," ","v","a","l","u","e">>

ErrChoices ==
  <<"'","c","h","o","i","c","e","s","'">>

ErrNoAssistant ==
  <<"U","n","a","b","l","e"," ","t","o"," ","f","i","n","d"," ","a","s","s",
    "i","s","t","a","n","t"," ","m","e","s","s","a","g","e"," ","i","n"," ",
    "R","e","s","p","o","n","s","e","s"," ","o","u","t","p","u","t">>

NetworkMessage ==
  <<"R","e","q","u","e","s","t"," ","t","o"," ","t","r","a","n","s","l","a",
    "t","i","o","n"," ","s","e","r","v","i","c","e"," ","f","a","i","l","e",
    "d"," ","(","t","i","m","e","o","u","t"," ","o","r"," ","c","o","n","n",
    "e","c","t","i","v","i","t","y"," ","i","s","s","u","e",")","."," ","D",
    "e","t","a","i","l","s",":"," ">>

ParseMessage ==
  <<"C","a","n"," ","n","o","t"," ","p","a","r","s","e"," ","r","e","t","u",
    "r","n","e","d"," ","r","e","s","p","o","n","s","e","."," ","R","a","w",
    " ","d","a","t","a",":"," ">>


TxtBonjour ==
  <<"B","o","n","j","o","u","r">>

ErrIndex ==
  <<"l","i","s","t"," ","i","n","d","e","x"," ","o","u","t"," ","o","f"," ",
    "r","a","n","g","e">>

ErrMessage ==
  <<"'","m","e","s","s","a","g","e","'">>

ErrContent ==
  <<"'","c","o","n","t","e","n","t","'">>

Bearer ==
  <<"B","e","a","r","e","r"," ">>

NL ==
  <<"\n">>

DataPrefix ==
  <<"d","a","t","a",":">>

DataSep ==
  <<"d","a","t","a",":"," ">>

DoneMark ==
  <<"[","D","O","N","E","]">>

TxtA ==
  <<"a">>

TxtB ==
  <<"b">>

TxtC ==
  <<"c">>

PayChunkA ==
  <<"{","\"","c","h","o","i","c","e","s","\"",":","[","{","\"","d","e","l",
    "t","a","\"",":","{","\"","c","o","n","t","e","n","t","\"",":","\"","a",
    "\"","}","}","]","}">>

PayChunkB ==
  <<"{","\"","c","h","o","i","c","e","s","\"",":","[","{","\"","d","e","l",
    "t","a","\"",":","{","\"","c","o","n","t","e","n","t","\"",":","\"","b",
    "\"","}","}","]","}">>

PayChunkRole ==
  <<"{","\"","c","h","o","i","c","e","s","\"",":","[","{","\"","d","e","l",
    "t","a","\"",":","{","\"","r","o","l","e","\"",":","\"","a","s","s","i",
    "s","t","a","n","t","\"","}","}","]","}">>

PayBad ==
  <<"{","o","o","p","s">>

PayEvtDelta ==
  <<"{","\"","t","y","p","e","\"",":","\"","r","e","s","p","o","n","s","e",
    ".","o","u","t","p","u","t","_","t","e","x","t",".","d","e","l","t","a",
    "\"",",","\"","d","e","l","t","a","\"",":","\"","a","\"","}">>

PayEvtReasoning ==
  <<"{","\"","t","y","p","e","\"",":","\"","r","e","s","p","o","n","s","e",
    ".","r","e","a","s","o","n","i","n","g",".","d","e","l","t","a","\"",
    ",","\"","d","e","l","t","a","\"",":","\"","b","\"","}">>

PayEvtCompleted ==
  <<"{","\"","t","y","p","e","\"",":","\"","r","e","s","p","o","n","s","e",
    ".","c","o","m","p","l","e","t","e","d","\"","}">>

PayEvtError ==
  <<"{","\"","t","y","p","e","\"",":","\"","r","e","s","p","o","n","s","e",
    ".","e","r","r","o","r","\"",",","\"","e","r","r","o","r","\"",":","{",
    "\"","m","e","s","s","a","g","e","\"",":","\"","q","u","o","t","a"," ",
    "e","x","c","e","e","d","e","d","\"","}","}">>

PayEvtMessage ==
  <<"{","\"","t","y","p","e","\"",":","\"","r","e","s","p","o","n","s","e",
    ".","m","e","s","s","a","g","e",".","d","e","l","t","a","\"",",","\"",
    "d","e","l","t","a","\"",":","\"","b","\"","}">>

PayEvtEmpty ==
  <<"{","\"","t","y","p","e","\"",":","\"","r","e","s","p","o","n","s","e",
    ".","o","u","t","p","u","t","_","t","e","x","t",".","d","e","l","t","a",
    "\"",",","\"","d","e","l","t","a","\"",":","\"","\"","}">>

PayEvtSuccess ==
  <<"{","\"","t","y","p","e","\"",":","\"","r","e","s","p","o","n","s","e",
    ".","c","o","m","p","l","e","t","e","d",".","s","u","c","c","e","s","s",
    "\"","}">>

PayEvtErrorBare ==
  <<"{","\"","t","y","p","e","\"",":","\"","r","e","s","p","o","n","s","e",
    ".","e","r","r","o","r","\"","}">>

RawErr401 ==
  <<"{","\"","e","r","r","o","r","\"",":","{","\"","c","o","d","e","\"",":",
    "\"","4","0","1","\"","}","}">>

ErrRead ==
  <<"C","o","n","n","e","c","t","i","o","n"," ","r","e","s","e","t"," ","b",
    "y"," ","p","e","e","r">>

ErrDelta ==
  <<"'","d","e","l","t","a","'">>

ReprEvtErrorBare ==
  <<"{","'","t","y","p","e","'",":"," ","'","r","e","s","p","o","n","s","e",
    ".","e","r","r","o","r","'","}">>

\* str(e) of the TypeError str.replace raises when its second argument is None
ErrReplace ==
  <<"r","e","p","l","a","c","e","(",")"," ","a","r","g","u","m","e","n","t",
    " ","2"," ","m","u","s","t"," ","b","e"," ","s","t","r",","," ","n","o",
    "t"," ","N","o","n","e">>

\* -------------------------------------------------- Python string helpers
\* sub in s
StrIn(sub, s) ==
  \E i \in 0..(Len(s) - Len(sub)) : \A j \in 1..Len(sub) : s[i + j] = sub[j]

\* s.startswith(prefix)
startswith(s, prefix) ==
  /\ Len(prefix) <= Len(s)
  /\ \A j \in 1..Len(prefix) : s[j] = prefix[j]

\* s.strip()
strip(s) ==
  LET keep == {i \in 1..Len(s) : s[i] \notin {" ", "\n", "\r", "\t"}}
      first == CHOOSE i \in keep : \A k \in keep : i <= k
      final == CHOOSE i \in keep : \A k \in keep : k <= i
  IN  IF keep = {} THEN <<>> ELSE SubSeq(s, first, final)

\* s.split(sep, 1): the list of one or two parts
split(s, sep) ==
  LET at == {i \in 0..(Len(s) - Len(sep)) :
               \A j \in 1..Len(sep) : s[i + j] = sep[j]}
      i == CHOOSE k \in at : \A m \in at : k <= m
  IN  IF at = {} THEN <<s>>
      ELSE <<SubSeq(s, 1, i), SubSeq(s, i + Len(sep) + 1, Len(s))>>

\* x in list
InList(x, list) == \E i \in 1..Len(list) : list[i] = x

\* mapping.get(key, default)
ConfigGet(mapping, key, default) ==
  IF key \notin DOMAIN mapping \/ mapping[key] = <<>> THEN default
  ELSE mapping[key][1]

\* ------------------------------------------------------ engine classes
Keys == {"K1", "K2"}
Names == {"ChatGPT", "openai-new"}

KeyLists == UNION {[1..n -> Keys] : n \in 0..MaxKeys}

\* The configuration mapping handed to set_config().
Configs ==
  [api_keys : {<<>>} \cup {<<l>> : l \in KeyLists},
   stream   : {<<>>, <<TRUE>>, <<FALSE>>},
   model    : {<<>>, <<ModelO3>>}]

VARIABLES
  name,           \* the engine class
  need_api_key,   \* class attribute
  config,         \* class attribute set by set_config()
  api_keys,       \* self.api_keys: the remaining-key queue
  bad_api_keys,   \* self.bad_api_keys
  api_key,        \* self.api_key: the active key, or None
  stream,         \* self.stream
  model,          \* self.model
  is_reasoning,   \* self.is_reasoning (classic chat engine)
  endpoint,       \* self.endpoint
  sampling,       \* self.sampling
  source_lang,    \* self.source_lang
  target_lang,    \* self.target_lang
  batch,          \* what ChatgptBatchTranslate(self) did, if it was called
  heap,           \* the list objects of the peer instances, by identity
  insts,          \* the peer instances built from the same configuration
  acting,         \* the peer instance whose method ran last
  decoded,        \* a decoded Responses payload handed to the result parser
  parsed,         \* what the result parser made of it
  pc,             \* where the caller of translate() is
  calls,          \* translate() calls made by the caller so far
  requests,       \* requests issued by the caller's last call
  pre,            \* the key state when the caller's last call started
  activated,      \* the keys that became the active key, in order
  last,           \* the caller's last call and what it returned or raised
  gen,            \* where the generator translate() returned is
  lines,          \* the lines the server sends on the channel before it closes
  pos,            \* how many of them readline() has handed out
  line,           \* the generator's variable `line`
  yielded,        \* the fragments the generator has yielded
  incomplete,     \* the reads that raised IncompleteRead
  raised          \* the exception that ended the generator, if any

vars ==
  <<name, need_api_key, config, api_keys, bad_api_keys, api_key, stream,
    model, is_reasoning, endpoint, sampling, source_lang, target_lang, batch,
    heap, insts, acting, decoded, parsed, pc, calls, requests, pre, activated,
    last, gen, lines, pos, line, yielded, incomplete, raised>>

classvars == <<name, need_api_key, config>>
keyvars == <<api_keys, bad_api_keys, api_key>>
modevars == <<stream, model, is_reasoning, endpoint, sampling>>
sessionvars == <<source_lang, target_lang, batch>>
peervars == <<heap, insts, acting>>
parsevars == <<decoded, parsed>>
callvars == <<pc, calls, requests, pre, last>>
streamvars == <<gen, lines, pos, line, yielded, incomplete, raised>>

\* The key state of the instance, as one value.
Self == [api_keys |-> api_keys, bad_api_keys |-> bad_api_keys,
         api_key |-> api_key]

\* Class attributes that differ between the engines.
api_key_errors ==
  IF name = "openai-new" THEN <<Sig401, SigUnauthorized, SigQuota>>
  ELSE <<Sig401>>

default_stream == IF name = "openai-new" THEN FALSE ELSE TRUE
default_model == IF name = "openai-new" THEN ModelO4Mini ELSE ModelGpt4o

REASONING_MODEL_PREFIXES == <<PrefixO1, PrefixO3, PrefixO4>>

\* Mutant: only the first prefix is looked at.
_is_reasoning_model_first_prefix(model_id) ==
  model_id # <<>> /\ startswith(model_id, REASONING_MODEL_PREFIXES[1])

_is_reasoning_model(model_id) ==
  /\ model_id # <<>>
  /\ \E i \in 1..Len(REASONING_MODEL_PREFIXES) :
       startswith(model_id, REASONING_MODEL_PREFIXES[i])

\* --------------------------------------------------------- key methods
\* Mutant: the key is read from the front of the queue and left there.
get_api_key_no_pop(q) ==
  IF need_api_key /\ q # <<>>
  THEN [ret |-> Head(q), api_keys |-> q]
  ELSE [ret |-> None, api_keys |-> q]

\* Mutant: pop() for pop(0), the key is taken from the back of the queue.
get_api_key_pop_last(q) ==
  IF need_api_key /\ q # <<>>
  THEN [ret |-> q[Len(q)], api_keys |-> SubSeq(q, 1, Len(q) - 1)]
  ELSE [ret |-> None, api_keys |-> q]

\* get_api_key() on the queue q: the key returned and the queue left.
get_api_key(q) ==
  IF need_api_key /\ q # <<>>
  THEN [ret |-> Head(q), api_keys |-> Tail(q)]
  ELSE [ret |-> None, api_keys |-> q]

\* Mutant: the old key is not appended to the bad-key list.
swap_api_key_no_mark(self) ==
  IF ~InList(self.api_key, self.bad_api_keys)
  THEN LET got == get_api_key(self.api_keys)
       IN  [self |-> [api_keys |-> got.api_keys,
                      bad_api_keys |-> self.bad_api_keys,
                      api_key |-> got.ret],
            ret |-> got.ret # None]
  ELSE [self |-> self, ret |-> FALSE]

\* Mutant: True is returned whether or not a key was obtained.
swap_api_key_returns_true(self) ==
  IF ~InList(self.api_key, self.bad_api_keys)
  THEN LET got == get_api_key(self.api_keys)
       IN  [self |-> [api_keys |-> got.api_keys,
                      bad_api_keys |-> Append(self.bad_api_keys, self.api_key),
                      api_key |-> got.ret],
            ret |-> TRUE]
  ELSE [self |-> self, ret |-> FALSE]

\* swap_api_key() on key state self: the key state left and the value returned.
swap_api_key(self) ==
  IF ~InList(self.api_key, self.bad_api_keys)
  THEN LET got == get_api_key(self.api_keys)
       IN  [self |-> [api_keys |-> got.api_keys,
                      bad_api_keys |-> Append(self.bad_api_keys, self.api_key),
                      api_key |-> got.ret],
            ret |-> got.ret # None]
  ELSE [self |-> self, ret |-> FALSE]

\* Mutant: the loop returns after the first signature.
match_error_first_only(error_message) ==
  Len(api_key_errors) > 0 /\ StrIn(api_key_errors[1], error_message)

match_error(error_message) ==
  \E i \in 1..Len(api_key_errors) : StrIn(api_key_errors[i], error_message)

\* Mutant: every error asks for a swap while keys remain.
need_swap_api_key_any_error(self, error_message) ==
  [self |-> self, ret |-> need_api_key /\ Len(self.api_keys) > 0]

\* Mutant: the queue is not looked at.
need_swap_api_key_no_queue_check(self, error_message) ==
  [self |-> self,
   ret |-> need_api_key /\ match_error(error_message)]

need_swap_api_key(self, error_message) ==
  [self |-> self,
   ret |-> /\ need_api_key
           /\ Len(self.api_keys) > 0
           /\ match_error(error_message)]

\* ------------------------------------------------------------ transport
\* What request() hands back when raw_object is false: the decoded body.
Responses == {RawChatOk, RawRespOk, RawHtml401, RawOther, RawErr401}

\* What request() hands back when raw_object is true: the open channel,
\* which has no text of its own.
Channel == <<>>

\* The exceptions request() raises: an HTTP-status error, whose body may or
\* may not be readable, and the failures with no response.
TransportFailures ==
  {[type |-> "HTTPError", text |-> t, body |-> b] :
     t \in {Http401, Http500}, b \in {<<>>, <<BodyQuota>>, <<BodyBusy>>}}
  \cup
  {[type |-> ty, text |-> t, body |-> <<>>] :
     ty \in {"URLError", "timeout"}, t \in {UrlTimedOut, UrlTunnel401}}

Raise(ty, t) == [ok |-> FALSE, exc |-> [type |-> ty, text |-> t, body |-> <<>>]]
Return(v) == [ok |-> TRUE, value |-> v]

\* traceback_error(): the text of the exception being handled.
traceback_error(e) == TbPrefix \o e.text

\* JSON null (Python None) where a text may stand.
JNull == <<"null">>

\* dict.get(key, default)
Get(d, key, default) == IF key \in DOMAIN d THEN d[key] ELSE default

RECURSIVE Join(_)
Join(parts) == IF parts = <<>> THEN <<>> ELSE Head(parts) \o Join(Tail(parts))

\* ------------------------------------------------------- result parsing
\* The JSON texts of the model and what each decodes to: an object is a
\* record, an array a sequence, a string a text.  Any other text is not JSON.
JsonTable ==
  {[raw |-> RawChatOk,
    doc |-> [choices |-> <<[message |-> [content |-> TxtBonjour]]>>]],
   [raw |-> RawRespOk,
    doc |-> [output |->
              <<[type |-> "message", role |-> "assistant",
                 content |-> <<[type |-> "output_text",
                                text |-> TxtBonjour]>>]>>]],
   [raw |-> RawOther, doc |-> [id |-> "r1"]],
   [raw |-> RawErr401, doc |-> [error |-> [code |-> Sig401]]],
   [raw |-> PayChunkA, doc |-> [choices |-> <<[delta |-> [content |-> TxtA]]>>]],
   [raw |-> PayChunkB, doc |-> [choices |-> <<[delta |-> [content |-> TxtB]]>>]],
   [raw |-> PayChunkRole,
    doc |-> [choices |-> <<[delta |-> [role |-> "assistant"]]>>]],
   [raw |-> PayEvtDelta,
    doc |-> [type |-> "response.output_text.delta", delta |-> TxtA]],
   [raw |-> PayEvtReasoning,
    doc |-> [type |-> "response.reasoning.delta", delta |-> TxtB]],
   [raw |-> PayEvtMessage,
    doc |-> [type |-> "response.message.delta", delta |-> TxtB]],
   [raw |-> PayEvtEmpty,
    doc |-> [type |-> "response.output_text.delta", delta |-> <<>>]],
   [raw |-> PayEvtCompleted, doc |-> [type |-> "response.completed"]],
   [raw |-> PayEvtSuccess, doc |-> [type |-> "response.completed.success"]],
   [raw |-> PayEvtErrorBare, doc |-> [type |-> "response.error"]],
   [raw |-> PayEvtError,
    doc |-> [type |-> "response.error", error |-> [message |-> BodyQuota]]]}

\* json.loads(text)
json_loads(text) ==
  LET hits == {d \in JsonTable : d.raw = text}
  IN  IF hits = {} THEN Raise("JSONDecodeError", ErrJson)
      ELSE Return((CHOOSE d \in hits : TRUE).doc)

\* Mutant: the last matching entry is taken.
FirstAssistant_last(output) ==
  LET hits == {i \in 1..Len(output) :
                 /\ Get(output[i], "type", None) = "message"
                 /\ Get(output[i], "role", None) = "assistant"}
  IN  IF hits = {} THEN 0 ELSE CHOOSE i \in hits : \A j \in hits : i >= j

\* The index of the first output entry that is the assistant's message, or 0.
FirstAssistant(output) ==
  LET hits == {i \in 1..Len(output) :
                 /\ Get(output[i], "type", None) = "message"
                 /\ Get(output[i], "role", None) = "assistant"}
  IN  IF hits = {} THEN 0 ELSE CHOOSE i \in hits : \A j \in hits : i <= j

\* ChatgptTranslate._extract_text_from_responses(data)
_extract_text_from_responses(data) ==
  LET output == Get(data, "output", <<>>)
      i == FirstAssistant(output)
      content == Get(output[i], "content", <<>>)
  IN  IF i = 0 THEN Raise("ValueError", ErrNoAssistant)
      ELSE Return(Join([k \in 1..Len(content) |-> Get(content[k], "text", <<>>)]))

\* ChatgptTranslate.get_result(response), the stream flag being off.
chat_get_result(response) ==
  LET data == json_loads(response)
  IN  IF ~data.ok THEN data
      ELSE IF is_reasoning THEN _extract_text_from_responses(data.value)
      ELSE IF "choices" \notin DOMAIN data.value
        THEN Raise("KeyError", ErrChoices)
      ELSE IF data.value.choices = <<>> THEN Raise("IndexError", ErrIndex)
      ELSE IF "message" \notin DOMAIN data.value.choices[1]
        THEN Raise("KeyError", ErrMessage)
      ELSE IF "content" \notin DOMAIN data.value.choices[1].message
        THEN Raise("KeyError", ErrContent)
      ELSE Return(data.value.choices[1].message.content)

\* Mutant: the type of a segment is not looked at.
ItemParts_any_type(item) ==
  LET content == Get(item, "content", <<>>)
  IN  SelectSeq([k \in 1..Len(content) |->
                   IF Get(content[k], "text", JNull) \notin {JNull, <<>>}
                   THEN content[k].text ELSE <<>>],
                LAMBDA t : t # <<>>)

\* The text parts OpenaiNewTranslate.get_result collects from one output item.
ItemParts(item) ==
  LET content == Get(item, "content", <<>>)
  IN  SelectSeq([k \in 1..Len(content) |->
                   IF /\ Get(content[k], "type", None) \in {"output_text", "text"}
                      /\ Get(content[k], "text", JNull) \notin {JNull, <<>>}
                   THEN content[k].text ELSE <<>>],
                LAMBDA t : t # <<>>)

\* OpenaiNewTranslate.get_result after json.loads: data is the decoded
\* payload.  `x or ''` turns a null text into the empty text; an array
\* that is null is modelled as one that is absent (`x or []` makes both []).
new_extract(data) ==
  LET output == Get(data, "output", <<>>)
  IN  IF "output_text" \in DOMAIN data
      THEN Return(IF data.output_text = JNull THEN <<>> ELSE data.output_text)
      ELSE Return(Join([k \in 1..Len(output) |-> Join(ItemParts(output[k]))]))

\* OpenaiNewTranslate.get_result(response), the stream flag being off.
new_get_result(response) ==
  LET data == json_loads(response)
  IN  IF ~data.ok THEN data ELSE new_extract(data.value)

\* get_result(response): a fragment stream when streaming is active, else
\* the parsed text or the exception the parser raises.
get_result(response) ==
  IF name = "openai-new"
  THEN IF stream THEN [ok |-> TRUE, value |-> "stream"]
       ELSE new_get_result(response)
  ELSE IF ~is_reasoning /\ stream THEN [ok |-> TRUE, value |-> "stream"]
       ELSE chat_get_result(response)

\* get_headers(): the Authorization header is "Bearer " and the active key.
get_headers(self) == [Authorization |-> <<Bearer, self.api_key>>]

\* ------------------------------------------------------ request building
CHAT_ENDPOINT == "https://api.openai.com/v1/chat/completions"
RESPONSES_ENDPOINT == "https://api.openai.com/v1/responses"
OPENROUTER_ENDPOINT == "https://openrouter.ai/api/v1/chat/completions"

\* An endpoint a configuration may name.
CustomEndpoint == "https://proxy.example/v1/chat/completions"

\* The class attribute `endpoint`: Base has None, the OpenRouter variant and
\* the Responses-native engine have one of their own.
class_endpoint ==
  IF name = "openai-new" THEN RESPONSES_ENDPOINT
  ELSE IF name = "OpenRouter" THEN OPENROUTER_ENDPOINT
  ELSE None

\* Mutant: the configured endpoint is not looked at.
_select_endpoint_ignores_config(cfg, reasoning) ==
  IF reasoning THEN RESPONSES_ENDPOINT ELSE CHAT_ENDPOINT

\* ChatgptTranslate._select_endpoint(): the configured endpoint, else the
\* endpoint of the model's family.
_select_endpoint(cfg, reasoning) ==
  IF "endpoint" \in DOMAIN cfg /\ cfg.endpoint # <<>> THEN cfg.endpoint[1]
  ELSE IF reasoning THEN RESPONSES_ENDPOINT ELSE CHAT_ENDPOINT

get_endpoint == endpoint

\* The language names the session may set, and the text to translate.
AutoDetect == "Auto detect"
SourceLangs == {AutoDetect, "English"}
TargetLangs == {"French"}
Text == "Hello"

\* Base.get_source_code(lang): the language-code table of the engines
\* (google) knows English; the sentinel is "auto".
get_source_code(lang) ==
  IF lang = AutoDetect THEN "auto"
  ELSE IF lang = "English" THEN "en" ELSE None

_is_auto_lang == get_source_code(source_lang) = "auto"

\* get_prompt(): str.replace raises TypeError when the language it is given
\* is None.  The prompt is kept as the two labels substituted into it.
get_prompt ==
  IF target_lang = None THEN Raise("TypeError", ErrReplace)
  ELSE IF ~_is_auto_lang /\ source_lang = None
    THEN Raise("TypeError", ErrReplace)
  ELSE Return([tlang |-> target_lang,
               slang |-> IF _is_auto_lang THEN "detected language"
                         ELSE source_lang])

\* The class attributes temperature and top_p, both 1.0, and getattr.
temperature == "1.0"
top_p == "1.0"
getattr(attr) == IF attr = "top_p" THEN top_p ELSE temperature

\* Mutant: the stream flag is sent in both shapes.
chat_get_body_stream_always(text) ==
  LET prompt == get_prompt
  IN  IF ~prompt.ok THEN prompt
      ELSE IF is_reasoning
        THEN Return(("model" :> model) @@ ("instructions" :> prompt.value)
                    @@ ("input" :> text) @@ ("stream" :> stream)
                    @@ (sampling :> getattr(sampling)))
      ELSE Return(("model" :> model)
                  @@ ("messages" :>
                        <<[role |-> "system", content |-> prompt.value],
                          [role |-> "user", content |-> text]>>)
                  @@ ("stream" :> stream)
                  @@ (sampling :> getattr(sampling)))

\* ChatgptTranslate.get_body(text): the body before json.dumps, a mapping
\* from its keys to their values.
chat_get_body(text) ==
  LET prompt == get_prompt
  IN  IF ~prompt.ok THEN prompt
      ELSE IF is_reasoning
        THEN Return(("model" :> model) @@ ("instructions" :> prompt.value)
                    @@ ("input" :> text) @@ (sampling :> getattr(sampling)))
      ELSE Return(("model" :> model)
                  @@ ("messages" :>
                        <<[role |-> "system", content |-> prompt.value],
                          [role |-> "user", content |-> text]>>)
                  @@ ("stream" :> stream)
                  @@ (sampling :> getattr(sampling)))

\* OpenaiNewTranslate.get_body(text).
new_get_body(text) ==
  LET prompt == get_prompt
      body == ("model" :> model)
              @@ ("input" :>
                    <<[role |-> "system", content |-> prompt.value],
                      [role |-> "user", content |-> text]>>)
              @@ ("reasoning" :> [effort |-> "medium"])
      streamed == IF stream THEN ("stream" :> TRUE) @@ body ELSE body
  IN  IF ~prompt.ok THEN prompt
      ELSE Return((sampling :> getattr(sampling)) @@ streamed)

get_body(text) ==
  IF name = "openai-new" THEN new_get_body(text) ELSE chat_get_body(text)

\* ------------------------------------------------------------ translate
\* isinstance(e, cls): mechanize's HTTPError is a subclass of URLError.
isinstance(e, cls) ==
  \/ e.type = cls
  \/ e.type = "HTTPError" /\ cls = "URLError"

\* Mutant: the body of an HTTP error is not appended to the text.
error_message_no_body(e, got_response, response) ==
  LET tb == traceback_error(e)
  IN  IF ~stream /\ got_response THEN tb \o Sep \o response
      ELSE tb

\* The diagnostic text the except block builds: the traceback, the body of
\* an HTTP error when it can be read, and the response when one was bound
\* and the engine is not streaming.
error_message(e, got_response, response) ==
  LET tb == traceback_error(e)
      with_body == IF isinstance(e, "HTTPError") /\ e.body # <<>>
                   THEN tb \o Sep \o e.body[1] ELSE tb
  IN  IF ~stream /\ got_response THEN with_body \o Sep \o response
      ELSE with_body

\* The elif branch of the except block: not an HTTPError, a URLError or a
\* timeout, and `response` not bound.
is_network_failure(e, got_response) ==
  /\ ~isinstance(e, "HTTPError")
  /\ isinstance(e, "URLError") \/ isinstance(e, "timeout")
  /\ ~got_response

\* `need_swap_api_key(text) and swap_api_key()`: swap is called only when
\* the first holds.
rotate(self, text) ==
  IF need_swap_api_key(self, text).ret THEN swap_api_key(self)
  ELSE [self |-> self, ret |-> FALSE]

\* Mutant: swap_api_key() is called without asking need_swap_api_key().
except_handler_always_swaps(self, e, got_response, response) ==
  LET network == is_network_failure(e, got_response)
      text == IF network THEN e.text
              ELSE error_message(e, got_response, response)
      swapped == swap_api_key(self)
  IN  [self |-> swapped.self,
       recurse |-> swapped.ret,
       message |-> IF network THEN NetworkMessage \o e.text
                   ELSE ParseMessage \o Sep \o text]

\* The except block of translate(): e is the exception, got_response tells
\* whether `response` was bound when it was raised, response is its text.
\* Gives the key state left, whether translate() recurses and, when it does
\* not, the message of the UnexpectedResult it raises.
except_handler(self, e, got_response, response) ==
  LET network == is_network_failure(e, got_response)
      text == IF network THEN e.text
              ELSE error_message(e, got_response, response)
      swapped == rotate(self, text)
  IN  [self |-> swapped.self,
       recurse |-> swapped.ret,
       message |-> IF network THEN NetworkMessage \o e.text
                   ELSE ParseMessage \o Sep \o text]

\* What the try block of one translate() frame can meet: request() raises,
\* or it returns a response and get_result returns or raises.
TryOutcomes ==
  IF ~get_body(Text).ok
  THEN {[sent |-> FALSE, got_response |-> FALSE, response |-> Channel,
         e |-> get_body(Text).exc]}
  ELSE {[sent |-> TRUE, got_response |-> FALSE, response |-> Channel,
         e |-> e] : e \in TransportFailures}
       \cup
       {[sent |-> TRUE, got_response |-> TRUE, response |-> r, e |-> <<>>] :
          r \in IF stream THEN {Channel} ELSE Responses}

NoCall == [op |-> "none"]
NoError == [type |-> "none"]
NoPayload == [kind |-> "none"]
NoResult == [ok |-> FALSE, exc |-> NoError]
Pending == [op |-> "translate", kind |-> "pending"]

\* __init__ of Base, then of the engine class, for the class attributes
\* and the configuration chosen.
Constructed ==
  /\ LET got == get_api_key(ConfigGet(config, "api_keys", <<>>))
     IN  /\ api_keys = got.api_keys
         /\ bad_api_keys = <<>>
         /\ api_key = got.ret
         /\ activated = IF got.ret = None THEN <<>> ELSE <<got.ret>>
  /\ model = ConfigGet(config, "model", default_model)
  /\ is_reasoning = (name # "openai-new" /\ _is_reasoning_model(model))
  /\ stream = IF is_reasoning THEN FALSE
              ELSE ConfigGet(config, "stream", default_stream)
  /\ endpoint = IF name = "openai-new"
                THEN ConfigGet(config, "endpoint", class_endpoint)
                ELSE _select_endpoint(config, is_reasoning)
  /\ sampling = ConfigGet(config, "sampling", "temperature")
  /\ source_lang = None
  /\ target_lang = None
  /\ batch = "none"
  /\ heap = <<ConfigGet(config, "api_keys", <<>>)>>
  /\ insts = <<>>
  /\ acting = 0
  /\ decoded = NoPayload
  /\ parsed = NoResult
  /\ pc = "idle"
  /\ calls = 0
  /\ requests = <<>>
  /\ pre = Self
  /\ last = NoCall
  /\ gen = "none"
  /\ lines = <<>>
  /\ pos = 0
  /\ line = <<>>
  /\ yielded = <<>>
  /\ incomplete = 0
  /\ raised = NoError

Init ==
  /\ name \in Names
  /\ need_api_key \in BOOLEAN
  /\ config \in Configs
  /\ Constructed

\* The caller calls translate(text).
Call ==
  /\ pc = "idle"
  /\ calls < MaxCalls
  /\ pc' = "translate"
  /\ calls' = calls + 1
  /\ requests' = <<>>
  /\ pre' = Self
  /\ last' = Pending
  /\ gen' = "none"
  /\ lines' = <<>>
  /\ pos' = 0
  /\ line' = <<>>
  /\ yielded' = <<>>
  /\ incomplete' = 0
  /\ raised' = NoError
  /\ UNCHANGED <<classvars, sessionvars, peervars, parsevars, keyvars, modevars, activated>>

\* One frame of translate(): the request, then the result or the except
\* block, which ends in a recursive call or in a raise.
Translate ==
  /\ pc = "translate"
  /\ \E o \in TryOutcomes :
     \E got \in {IF o.got_response THEN get_result(o.response)
                 ELSE [ok |-> FALSE, exc |-> o.e]} :
     \E h \in {IF got.ok THEN [recurse |-> FALSE]
               ELSE except_handler(Self, got.exc, o.got_response,
                                   o.response)} :
       /\ requests' = IF o.sent
                      THEN Append(requests,
                             [url |-> get_endpoint,
                              body |-> get_body(Text).value,
                              Authorization |-> get_headers(Self).Authorization,
                              bad |-> InList(api_key, bad_api_keys)])
                      ELSE requests
       /\ gen' = IF got.ok /\ got.value = "stream" THEN "created" ELSE gen
       /\ IF got.ok
          THEN /\ pc' = "idle"
               /\ last' = IF got.value = "stream"
                          THEN [op |-> "translate", kind |-> "stream"]
                          ELSE [op |-> "translate", kind |-> "text",
                                value |-> got.value,
                                response |-> o.response]
               /\ UNCHANGED <<keyvars, activated>>
          ELSE /\ api_keys' = h.self.api_keys
               /\ bad_api_keys' = h.self.bad_api_keys
               /\ api_key' = h.self.api_key
               /\ activated' = IF h.recurse
                               THEN Append(activated, h.self.api_key)
                               ELSE activated
               /\ pc' = IF h.recurse THEN "translate" ELSE "idle"
               /\ last' = IF h.recurse
                          THEN [op |-> "translate", kind |-> "pending",
                                cause |-> got.exc.type,
                                response |-> o.response]
                          ELSE [op |-> "translate", kind |-> "error",
                                value |-> h.message, e |-> got.exc,
                                got_response |-> o.got_response,
                                response |-> o.response]
  /\ UNCHANGED <<classvars, sessionvars, peervars, parsevars, modevars, calls, pre, lines, pos, line, yielded,
                 incomplete, raised>>

\* The caller calls swap_api_key() itself, between translate() calls.
SwapApiKey ==
  /\ pc = "idle"
  /\ LET s == swap_api_key(Self)
     IN  /\ api_keys' = s.self.api_keys
         /\ bad_api_keys' = s.self.bad_api_keys
         /\ api_key' = s.self.api_key
         /\ activated' = IF s.ret THEN Append(activated, s.self.api_key)
                         ELSE activated
         /\ last' = [op |-> "swap_api_key", ret |-> s.ret]
  /\ pre' = Self
  /\ requests' = <<>>
  /\ UNCHANGED <<classvars, sessionvars, peervars, parsevars, modevars, pc, calls, streamvars>>

\* The error texts a caller may ask need_swap_api_key() about.
ErrorTexts == {Http401, BodyQuota, UrlTimedOut, <<>>}

\* The caller calls need_swap_api_key(error_message) itself.
NeedSwapApiKey ==
  /\ pc = "idle"
  /\ \E m \in ErrorTexts :
       LET n == need_swap_api_key(Self, m)
       IN  /\ api_keys' = n.self.api_keys
           /\ bad_api_keys' = n.self.bad_api_keys
           /\ api_key' = n.self.api_key
           /\ last' = [op |-> "need_swap_api_key", arg |-> m, ret |-> n.ret]
  /\ pre' = Self
  /\ requests' = <<>>
  /\ UNCHANGED <<classvars, sessionvars, peervars, parsevars, modevars, pc, calls, activated, streamvars>>

\* The session sets the languages: set_source_lang, set_target_lang.
SetSourceLang ==
  /\ pc = "idle"
  /\ source_lang = None
  /\ source_lang' \in SourceLangs
  /\ UNCHANGED <<classvars, peervars, parsevars, keyvars, modevars, callvars, activated,
                 streamvars, target_lang, batch>>

SetTargetLang ==
  /\ pc = "idle"
  /\ target_lang = None
  /\ target_lang' \in TargetLangs
  /\ UNCHANGED <<classvars, peervars, parsevars, keyvars, modevars, callvars, activated,
                 streamvars, source_lang, batch>>

Next ==
  \/ SetSourceLang \/ SetTargetLang
  \/ Call \/ Translate \/ SwapApiKey \/ NeedSwapApiKey

Spec == Init /\ [][Next]_vars

\* ------------------------------------------------- request-building specs
\* The engines of the classic chat family, the OpenRouter variant among
\* them, and the Responses-native engine.
BuildNames == {"ChatGPT", "OpenRouter", "openai-new"}

BuildConfigs ==
  [api_keys : {<<<<"K1", "K2">>>>},
   stream   : {<<>>, <<TRUE>>, <<FALSE>>},
   model    : {<<>>, <<ModelO3>>},
   endpoint : {<<>>, <<CustomEndpoint>>},
   sampling : {<<>>, <<"top_p">>}]

BuildInit ==
  /\ name \in BuildNames
  /\ need_api_key = TRUE
  /\ config \in BuildConfigs
  /\ Constructed

\* Mutant: a reasoning engine is not rejected.
ChatgptBatchTranslate_no_check(translator) ==
  [stream |-> FALSE, raised |-> "none"]

\* ChatgptBatchTranslate.__init__(translator): the stream flag it leaves on
\* the translator and the exception it raises, if any.
ChatgptBatchTranslate(translator) ==
  [stream |-> FALSE,
   raised |-> IF translator.is_reasoning THEN "UnsupportedModel" ELSE "none"]

\* ChatgptBatchTranslate(translator).__init__ over this instance, an engine
\* of the classic chat family: streaming is switched off, then a reasoning
\* engine is rejected with UnsupportedModel.
BatchWrap ==
  /\ pc = "idle"
  /\ name # "openai-new"
  /\ batch = "none"
  /\ \E w \in {ChatgptBatchTranslate([is_reasoning |-> is_reasoning, stream |-> stream])} :
       /\ stream' = w.stream
       /\ batch' = IF w.raised = "none" THEN "constructed" ELSE w.raised
  /\ last' = [op |-> "ChatgptBatchTranslate", stream |-> stream]
  /\ pre' = Self
  /\ requests' = <<>>
  /\ UNCHANGED <<classvars, peervars, parsevars, keyvars, model, is_reasoning, endpoint,
                 sampling, source_lang, target_lang, pc, calls, activated,
                 streamvars>>

BuildNext ==
  SetSourceLang \/ SetTargetLang \/ Call \/ Translate \/ BatchWrap

BuildSpec == BuildInit /\ [][BuildNext]_vars

\* ------------------------------------------------------- peer instances
\* Instances of one engine class share the class attribute config, and so
\* the list object config['api_keys'].  List objects live in heap, by
\* identity; heap[1] is the configured list.  A peer instance holds the
\* identities of its two lists and its active key.

\* Mutant: the instance keeps the configured list itself.
list_alias(h, id) == [heap |-> h, id |-> id]

\* lst[:] makes a new list object with the same elements.
list_copy(h, id) == [heap |-> Append(h, h[id]), id |-> Len(h) + 1]

\* The key state of a peer instance, as the operators on Self take it.
Load(h, inst) ==
  [api_keys |-> h[inst.api_keys], bad_api_keys |-> h[inst.bad_api_keys],
   api_key |-> inst.api_key]

\* The lists of a peer instance are mutated in place.
Store(h, inst, self) ==
  [id \in DOMAIN h |->
     IF id = inst.api_keys THEN self.api_keys
     ELSE IF id = inst.bad_api_keys THEN self.bad_api_keys
     ELSE h[id]]

\* Base.__init__ for a peer: the queue, the bad-key list, the first key.
Base__init__(h) ==
  LET c == list_copy(h, 1)
      h2 == Append(c.heap, <<>>)
      inst == [api_keys |-> c.id, bad_api_keys |-> Len(h2), api_key |-> None]
      got == get_api_key(h2[c.id])
  IN  [heap |-> Store(h2, inst, [api_keys |-> got.api_keys, bad_api_keys |-> <<>>]),
       inst |-> [inst EXCEPT !.api_key = got.ret]]

PeerConstruct ==
  /\ Len(insts) < MaxPeers
  /\ \E made \in {Base__init__(heap)} :
       /\ heap' = made.heap
       /\ insts' = Append(insts, made.inst)
  /\ acting' = Len(insts) + 1
  /\ UNCHANGED <<classvars, keyvars, modevars, sessionvars, parsevars,
                 callvars, activated, streamvars>>

\* swap_api_key() on peer i.
PeerSwapApiKey ==
  /\ \E i \in 1..Len(insts) :
       \E s \in {swap_api_key(Load(heap, insts[i]))} :
         /\ heap' = Store(heap, insts[i], s.self)
         /\ insts' = [insts EXCEPT ![i].api_key = s.self.api_key]
         /\ acting' = i
  /\ UNCHANGED <<classvars, keyvars, modevars, sessionvars, parsevars,
                 callvars, activated, streamvars>>

\* One frame of translate() on peer i meets a failing request: the except
\* block rotates the peer's key or not.
PeerTranslateFails ==
  /\ \E i \in 1..Len(insts) :
       \E e \in TransportFailures :
         \E h \in {except_handler(Load(heap, insts[i]), e, FALSE, Channel)} :
           /\ heap' = Store(heap, insts[i], h.self)
           /\ insts' = [insts EXCEPT ![i].api_key = h.self.api_key]
           /\ acting' = i
  /\ UNCHANGED <<classvars, keyvars, modevars, sessionvars, parsevars,
                 callvars, activated, streamvars>>

PeerInit ==
  /\ name = "ChatGPT"
  /\ need_api_key = TRUE
  /\ config \in {c \in Configs : c.stream = <<>> /\ c.model = <<>> /\ c.api_keys # <<>>}
  /\ Constructed

PeerNext == PeerConstruct \/ PeerSwapApiKey \/ PeerTranslateFails

PeerSpec == PeerInit /\ [][PeerNext]_vars

\* -------------------------------------------------- result-parsing spec
\* The content segments a Responses payload may carry: assistant text of
\* both accepted types, a reasoning block, and a segment whose text is null.
Segments ==
  {[type |-> "output_text", text |-> TxtA],
   [type |-> "text", text |-> TxtB],
   [type |-> "reasoning", text |-> TxtC],
   [type |-> "output_text", text |-> JNull]}

SegmentSeqs == UNION {[1..n -> Segments] : n \in 0..MaxSegments}

\* The output arrays holding the segments segs: in one item, split over
\* two items, or behind an item that has no content.
Outputs(segs) ==
  {<<[type |-> "message", content |-> segs]>>,
   <<[type |-> "reasoning"], [type |-> "message", content |-> segs]>>}
  \cup {<<[type |-> "message", content |-> SubSeq(segs, 1, k)],
          [type |-> "message", content |-> SubSeq(segs, k + 1, Len(segs))]>> :
          k \in 0..Len(segs)}

\* The decoded payloads: with a top-level output_text (null, empty or a
\* text) beside an output array, with an output array alone, with neither.
Payloads ==
  {[kind |-> "top", segs |-> segs, doc |-> [output_text |-> t, output |-> <<[type |-> "message", content |-> segs]>>]] :
     t \in {JNull, <<>>, TxtBonjour}, segs \in {s \in SegmentSeqs : Len(s) <= 1}}
  \cup UNION {{[kind |-> "output", segs |-> segs, doc |-> [output |-> out]] :
                 out \in Outputs(segs)} : segs \in SegmentSeqs}
  \cup {[kind |-> "output", segs |-> <<>>, doc |-> [id |-> "resp_1"]]}

ParseInit ==
  /\ name = "openai-new"
  /\ need_api_key = TRUE
  /\ config = [api_keys |-> <<<<"K1">>>>, stream |-> <<FALSE>>, model |-> <<>>]
  /\ Constructed

\* A non-streamed response arrives and json.loads has decoded it.
Decode ==
  /\ decoded = NoPayload
  /\ decoded' \in Payloads
  /\ UNCHANGED <<classvars, keyvars, modevars, sessionvars, peervars, parsed,
                 callvars, activated, streamvars>>

\* get_result works on the decoded payload.
GetResult ==
  /\ decoded # NoPayload
  /\ parsed = NoResult
  /\ parsed' = new_extract(decoded.doc)
  /\ UNCHANGED <<classvars, keyvars, modevars, sessionvars, peervars, decoded,
                 callvars, activated, streamvars>>

ParseNext == Decode \/ GetResult

ParseSpec == ParseInit /\ [][ParseNext]_vars

\* ------------------------------------------ classic reasoning results
\* The entries an output array of the Responses API may hold for the classic
\* engine: the assistant's message with its content segments (an output
\* text, a reasoning text, a segment without text), a message of another
\* role, a message without a role, a reasoning item.
ChatContents ==
  {<<>>,
   <<[type |-> "output_text", text |-> TxtA]>>,
   <<[type |-> "output_text", text |-> TxtB]>>,
   <<[type |-> "output_text", text |-> TxtA], [type |-> "output_text", text |-> TxtB]>>,
   <<[type |-> "reasoning", text |-> TxtC], [type |-> "refusal"], [type |-> "output_text", text |-> TxtA]>>}

ChatEntries ==
  {[type |-> "message", role |-> "assistant", content |-> c] : c \in ChatContents}
  \cup {[type |-> "message", role |-> "user", content |-> <<[type |-> "input_text", text |-> TxtC]>>],
        [type |-> "message", content |-> <<[type |-> "output_text", text |-> TxtC]>>],
        [type |-> "reasoning"]}

ChatPayloads ==
  {[kind |-> "chat", doc |-> [output |-> out]] :
     out \in UNION {[1..n -> ChatEntries] : n \in 0..MaxEntries}}
  \cup {[kind |-> "chat", doc |-> [id |-> "resp_1"]]}

\* A reasoning engine of the classic family, with two keys.
ResultInit ==
  /\ name = "ChatGPT"
  /\ need_api_key = TRUE
  /\ config = [api_keys |-> <<<<"K1", "K2">>>>, stream |-> <<>>, model |-> <<ModelO3>>]
  /\ Constructed

\* json.loads has decoded the response of a reasoning model.
DecodeOutput ==
  /\ decoded = NoPayload
  /\ decoded' \in ChatPayloads
  /\ UNCHANGED <<classvars, keyvars, modevars, sessionvars, peervars, parsed,
                 callvars, activated, streamvars>>

\* _extract_text_from_responses works on the decoded payload.
ExtractText ==
  /\ decoded # NoPayload
  /\ parsed = NoResult
  /\ parsed' = _extract_text_from_responses(decoded.doc)
  /\ UNCHANGED <<classvars, keyvars, modevars, sessionvars, peervars, decoded,
                 callvars, activated, streamvars>>

ResultNext ==
  \/ DecodeOutput \/ ExtractText
  \/ SetSourceLang \/ SetTargetLang \/ Call \/ Translate

ResultSpec == ResultInit /\ [][ResultNext]_vars

\* -------------------------------------------------------------- streams
\* The lines a server of the engine's protocol may send, as readline()
\* hands them out: an empty line, the [DONE] line, chunks or events, a chunk
\* that is not JSON and a data line with no space after the colon.
SseLine(payload) == DataSep \o payload \o NL

LineBlank == NL
LineDone == SseLine(DoneMark)
LineNoSpace == DataPrefix \o DoneMark \o NL

SseLines ==
  IF name = "openai-new"
  THEN {LineBlank, LineDone, LineNoSpace, SseLine(PayBad),
        SseLine(PayEvtDelta), SseLine(PayEvtReasoning),
        SseLine(PayEvtMessage), SseLine(PayEvtEmpty),
        SseLine(PayEvtCompleted), SseLine(PayEvtSuccess),
        SseLine(PayEvtError), SseLine(PayEvtErrorBare)}
  ELSE {LineBlank, LineDone, LineNoSpace, SseLine(PayBad),
        SseLine(PayChunkA), SseLine(PayChunkB), SseLine(PayChunkRole)}

LineSeqs == UNION {[1..n -> SseLines] : n \in 0..MaxLines}

Yield(v) == [act |-> "yield", value |-> v]
Continue == [act |-> "continue"]
Break == [act |-> "break"]
Throw(ty, t) == [act |-> "raise", exc |-> [type |-> ty, text |-> t]]

\* str(event) of an event that json.loads decoded
str_event(event) ==
  IF event = [type |-> "response.error"] THEN ReprEvtErrorBare ELSE <<>>

\* Mutant: the content is yielded whether or not the delta has one.
chat_parse_line_yield_always(l) ==
  LET parts == split(l, DataSep)
      data == json_loads(parts[2])
      delta == data.value.choices[1].delta
  IN  IF ~startswith(l, DataPrefix) THEN Continue
      ELSE IF Len(parts) < 2 THEN Throw("IndexError", ErrIndex)
      ELSE IF parts[2] = DoneMark THEN Break
      ELSE IF ~data.ok THEN Throw(data.exc.type, data.exc.text)
      ELSE IF "choices" \notin DOMAIN data.value
        THEN Throw("KeyError", ErrChoices)
      ELSE IF data.value.choices = <<>> THEN Throw("IndexError", ErrIndex)
      ELSE IF "delta" \notin DOMAIN data.value.choices[1]
        THEN Throw("KeyError", ErrDelta)
      ELSE Yield(Get(delta, "content", <<>>))

\* Mutant: a chunk that is not JSON is skipped.
chat_parse_line_skips_malformed(l) ==
  LET parts == split(l, DataSep)
      data == json_loads(parts[2])
      delta == data.value.choices[1].delta
  IN  IF ~startswith(l, DataPrefix) THEN Continue
      ELSE IF Len(parts) < 2 THEN Throw("IndexError", ErrIndex)
      ELSE IF parts[2] = DoneMark THEN Break
      ELSE IF ~data.ok THEN Continue
      ELSE IF "content" \in DOMAIN delta THEN Yield(delta.content)
      ELSE Continue

\* ChatgptTranslate._parse_stream: what the loop body does with one line.
chat_parse_line(l) ==
  LET parts == split(l, DataSep)
      data == json_loads(parts[2])
      delta == data.value.choices[1].delta
  IN  IF ~startswith(l, DataPrefix) THEN Continue
      ELSE IF Len(parts) < 2 THEN Throw("IndexError", ErrIndex)
      ELSE IF parts[2] = DoneMark THEN Break
      ELSE IF ~data.ok THEN Throw(data.exc.type, data.exc.text)
      ELSE IF "choices" \notin DOMAIN data.value
        THEN Throw("KeyError", ErrChoices)
      ELSE IF data.value.choices = <<>> THEN Throw("IndexError", ErrIndex)
      ELSE IF "delta" \notin DOMAIN data.value.choices[1]
        THEN Throw("KeyError", ErrDelta)
      ELSE IF "content" \in DOMAIN delta THEN Yield(delta.content)
      ELSE Continue

\* Mutant: a payload that is not JSON raises, as in the classic parser.
new_parse_line_raises_malformed(l) ==
  LET parts == split(l, DataSep)
      data == json_loads(parts[2])
      event == data.value
      etype == Get(event, "type", None)
      delta == Get(event, "delta", JNull)
  IN  IF l = <<>> \/ ~startswith(l, DataPrefix) THEN Continue
      ELSE IF Len(parts) < 2 THEN Throw("IndexError", ErrIndex)
      ELSE IF parts[2] = DoneMark THEN Break
      ELSE IF ~data.ok THEN Throw(data.exc.type, data.exc.text)
      ELSE IF etype \in {"response.output_text.delta", "response.message.delta"}
        THEN IF delta \notin {JNull, <<>>} THEN Yield(delta) ELSE Continue
      ELSE IF etype \in {"response.completed", "response.completed.success"}
        THEN Break
      ELSE IF etype = "response.error" THEN Throw("Exception", BodyQuota)
      ELSE Continue

\* OpenaiNewTranslate._parse_stream: what the loop body does with one line.
new_parse_line(l) ==
  LET parts == split(l, DataSep)
      data == json_loads(parts[2])
      event == data.value
      etype == Get(event, "type", None)
      delta == Get(event, "delta", JNull)
      message == Get(Get(event, "error", [message |-> JNull]), "message", JNull)
  IN  IF l = <<>> \/ ~startswith(l, DataPrefix) THEN Continue
      ELSE IF Len(parts) < 2 THEN Throw("IndexError", ErrIndex)
      ELSE IF parts[2] = DoneMark THEN Break
      ELSE IF ~data.ok THEN Continue
      ELSE IF etype \in {"response.output_text.delta", "response.message.delta"}
        THEN IF delta \notin {JNull, <<>>} THEN Yield(delta) ELSE Continue
      ELSE IF etype \in {"response.completed", "response.completed.success"}
        THEN Break
      ELSE IF etype = "response.error"
        THEN Throw("Exception",
                   IF message \notin {JNull, <<>>} THEN message
                   ELSE str_event(event))
      ELSE Continue

parse_line(l) ==
  IF name = "openai-new" THEN new_parse_line(l) ELSE chat_parse_line(l)

\* The server's body for the response that translate() handed back open.
Respond ==
  /\ gen = "created"
  /\ gen' = "open"
  /\ lines' \in LineSeqs
  /\ UNCHANGED <<classvars, sessionvars, peervars, parsevars, keyvars, modevars, callvars, activated, pos, line,
                 yielded, incomplete, raised>>

\* The consumer asks the generator for the next fragment.
Pull ==
  /\ gen \in {"open", "suspended"}
  /\ gen' = "reading"
  /\ UNCHANGED <<classvars, sessionvars, peervars, parsevars, keyvars, modevars, callvars, activated, lines, pos,
                 line, yielded, incomplete, raised>>

\* response.readline().decode("utf-8").strip() and its except clauses: the
\* next line, or the empty bytes of a closed channel; IncompleteRead, after
\* which the loop reads again; any other failure, raised as an Exception
\* with the parse message.
ReadLine ==
  /\ gen = "reading"
  /\ \/ /\ pos < Len(lines)
        /\ line' = strip(lines[pos + 1])
        /\ pos' = pos + 1
        /\ gen' = "line"
        /\ UNCHANGED <<incomplete, raised>>
     \/ /\ pos = Len(lines)
        /\ line' = strip(<<>>)
        /\ gen' = "line"
        /\ UNCHANGED <<pos, incomplete, raised>>
     \/ /\ incomplete < MaxIncomplete
        /\ incomplete' = incomplete + 1
        /\ UNCHANGED <<gen, pos, line, raised>>
     \/ /\ gen' = "failed"
        /\ raised' = [type |-> "Exception", text |-> ParseMessage \o ErrRead,
                      from |-> "readline"]
        /\ UNCHANGED <<pos, line, incomplete>>
  /\ UNCHANGED <<classvars, sessionvars, peervars, parsevars, keyvars, modevars, callvars, activated, lines,
                 yielded>>

\* Mutant: a failure of the generator goes through the except block of
\* translate().
ParseLine_rotates ==
  /\ gen = "line"
  /\ \E r \in {parse_line(line)} :
     \E h \in {IF r.act = "raise"
                THEN except_handler(Self, [type |-> r.exc.type, text |-> r.exc.text,
                                           body |-> <<>>], FALSE, Channel)
                ELSE [self |-> Self]} :
         /\ gen' = CASE r.act = "yield" -> "suspended"
                     [] r.act = "continue" -> "reading"
                     [] r.act = "break" -> "done"
                     [] r.act = "raise" -> "failed"
         /\ yielded' = IF r.act = "yield" THEN Append(yielded, r.value)
                       ELSE yielded
         /\ raised' = IF r.act = "raise"
                      THEN [type |-> r.exc.type, text |-> r.exc.text,
                            from |-> "line"]
                      ELSE raised
         /\ api_keys' = h.self.api_keys
         /\ bad_api_keys' = h.self.bad_api_keys
         /\ api_key' = h.self.api_key
  /\ UNCHANGED <<classvars, sessionvars, peervars, parsevars, modevars,
                 callvars, activated, lines, pos, line, incomplete>>

\* Mutant: after a fragment the generator runs on to the next read without
\* waiting for the consumer.
ParseLine_runs_on ==
  /\ gen = "line"
  /\ LET r == parse_line(line)
     IN  /\ gen' = CASE r.act = "yield" -> "reading"
                     [] r.act = "continue" -> "reading"
                     [] r.act = "break" -> "done"
                     [] r.act = "raise" -> "failed"
         /\ yielded' = IF r.act = "yield" THEN Append(yielded, r.value)
                       ELSE yielded
         /\ raised' = IF r.act = "raise"
                      THEN [type |-> r.exc.type, text |-> r.exc.text,
                            from |-> "line"]
                      ELSE raised
  /\ UNCHANGED <<classvars, sessionvars, peervars, parsevars, keyvars,
                 modevars, callvars, activated, lines, pos, line, incomplete>>

\* The rest of the loop body: the line is skipped, ends the stream, yields a
\* fragment or raises.
ParseLine ==
  /\ gen = "line"
  /\ LET r == parse_line(line)
     IN  /\ gen' = CASE r.act = "yield" -> "suspended"
                     [] r.act = "continue" -> "reading"
                     [] r.act = "break" -> "done"
                     [] r.act = "raise" -> "failed"
         /\ yielded' = IF r.act = "yield" THEN Append(yielded, r.value)
                       ELSE yielded
         /\ raised' = IF r.act = "raise"
                      THEN [type |-> r.exc.type, text |-> r.exc.text,
                            from |-> "line"]
                      ELSE raised
  /\ UNCHANGED <<classvars, sessionvars, peervars, parsevars, keyvars, modevars, callvars, activated, lines, pos,
                 line, incomplete>>

\* One streaming translate() call and the consumption of its stream.
StreamCall == calls = 0 /\ Call

StreamInit ==
  /\ Init
  /\ need_api_key
  /\ config.api_keys = <<<<"K1", "K2">>>>
  /\ config.stream = <<TRUE>>
  /\ config.model = <<>>

\* The session sets the languages before the call.
StreamSetSourceLang == calls = 0 /\ SetSourceLang
StreamSetTargetLang == calls = 0 /\ SetTargetLang

StreamNext ==
  \/ StreamSetSourceLang \/ StreamSetTargetLang
  \/ StreamCall \/ Translate \/ Respond \/ Pull \/ ReadLine \/ ParseLine

StreamSpec == StreamInit /\ [][StreamNext]_vars

\* The consumer keeps pulling and the generator, once resumed, runs on.
StreamLiveSpec ==
  /\ StreamSpec
  /\ WF_vars(Translate) /\ WF_vars(Respond)
  /\ WF_vars(Pull) /\ WF_vars(ReadLine) /\ WF_vars(ParseLine)

\* A caller that is inside translate() gets its answer: the transport
\* returns or raises, and the frame runs on.
LiveSpec == Spec /\ WF_vars(Translate)

\* ================================================================ claims
ConfiguredKeys == ConfigGet(config, "api_keys", <<>>)

\* The keys the last call started with: the active key, then the queue.
PreKeys == <<pre.api_key>> \o pre.api_keys

Distinct(list) ==
  \A i, j \in 1..Len(list) : list[i] = list[j] => i = j

InTranslate == last.op = "translate"

\* C1: one translate() call chain appends at most n keys to the bad-key
\* list, n being the number of configured keys, and a frame that starts
\* with the queue empty ends the chain: it returns or raises, it never
\* recurses.
C1_KeyRotationBound ==
  /\ [](InTranslate =>
          Len(bad_api_keys) - Len(pre.bad_api_keys) <= Len(ConfiguredKeys))
  /\ [][(pc = "translate" /\ api_keys = <<>>) => pc' = "idle"]_vars

\* A chain that used every key: the last one failed too and was raised.
C1_Witness ==
  /\ InTranslate /\ last.kind = "error"
  /\ Len(ConfiguredKeys) = MaxKeys
  /\ Len(requests) = MaxKeys
  /\ api_keys = <<>>
  /\ Len(bad_api_keys) = Len(pre.bad_api_keys) + MaxKeys - 1

\* C2: every translate() call ends; each retry took exactly one key off the
\* queue, so a chain issues at most 1 + (queue length at its start) requests.
C2_Retries ==
  IF pc = "translate" \/ requests = <<>> THEN Len(requests)
  ELSE Len(requests) - 1

C2_RetryTerminates ==
  /\ [](InTranslate =>
          /\ Len(api_keys) = Len(pre.api_keys) - C2_Retries
          /\ Len(requests) <= 1 + Len(pre.api_keys))
  /\ (pc = "translate") ~> (pc = "idle")

\* A chain that issued 1 + (queue length) requests and ended.
C2_Witness ==
  /\ InTranslate /\ pc = "idle"
  /\ pre.api_keys # <<>>
  /\ Len(requests) = 1 + Len(pre.api_keys)

\* C3: the active key is never in the bad-key list and no request is issued
\* with a key that is in it, whatever the configured key list.
C3_BadKeyNeverRetried ==
  /\ api_key # None => ~InList(api_key, bad_api_keys)
  /\ \A i \in 1..Len(requests) : ~requests[i].bad

\* C4: keys K1..Kn, all different, on an engine that needs a key.  When a
\* non-streaming translate() returns after j failed requests, request i was
\* built with Ki, the bad-key list gained exactly K1..Kj, K(j+1) is the
\* active key and the text is the one parsed from the response; a failure
\* whose error text carries a signature is raised only when no key is left;
\* and the next translate() starts from the key state the last one left.
C4_Expected(response) ==
  IF name = "openai-new"
  THEN IF response = RawRespOk THEN TxtBonjour ELSE <<>>
  ELSE IF response = (IF is_reasoning THEN RawRespOk ELSE RawChatOk)
       THEN TxtBonjour ELSE <<>>

C4_Chain ==
  LET j == Len(requests) - 1
  IN  /\ \A i \in 1..Len(requests) :
           requests[i].Authorization = <<Bearer, PreKeys[i]>>
      /\ last.kind = "text" =>
           /\ last.value = C4_Expected(last.response)
           /\ bad_api_keys = pre.bad_api_keys \o SubSeq(PreKeys, 1, j)
           /\ api_key = PreKeys[j + 1]
           /\ api_keys = SubSeq(PreKeys, j + 2, Len(PreKeys))
      /\ (last.kind = "error" /\ match_error(last.e.text)) => api_keys = <<>>

C4_EndToEndRotation ==
  /\ []((InTranslate /\ need_api_key /\ Distinct(ConfiguredKeys)) => C4_Chain)
  /\ [][(pc = "idle" /\ pc' = "translate") => UNCHANGED keyvars]_vars

\* K1 failed with a signature, K2 succeeded: the spec's scenario.
C4_Witness ==
  /\ InTranslate /\ last.kind = "text"
  /\ ConfiguredKeys = <<"K1", "K2">>
  /\ Len(requests) = 2
  /\ requests[2].Authorization = <<Bearer, "K2">>
  /\ bad_api_keys = <<"K1">>
  /\ api_key = "K2"
  /\ last.value = TxtBonjour

\* C5: the keys that became active, in order, are a prefix of the configured
\* list, the queue is the rest of it, and the active key is the last of them.
C5_KeyOrder ==
  LET n == Len(activated)
  IN  /\ n <= Len(ConfiguredKeys)
      /\ activated = SubSeq(ConfiguredKeys, 1, n)
      /\ api_keys = SubSeq(ConfiguredKeys, n + 1, Len(ConfiguredKeys))
      /\ api_key # None => (n > 0 /\ api_key = activated[n])

\* The second of two different keys became active after the first.
C5_Witness ==
  /\ activated = <<"K2", "K1">>
  /\ api_key = "K1"

\* C6: need_swap_api_key(text) is true exactly when the engine needs a key,
\* the queue is not empty and text contains one of the engine's error
\* signatures; the call leaves the key state as it was.
C6_Signatures ==
  IF name = "openai-new" THEN {Sig401, SigUnauthorized, SigQuota}
  ELSE {Sig401}

C6_NeedSwapApiKey ==
  last.op = "need_swap_api_key" =>
    /\ last.ret <=> /\ need_api_key
                    /\ pre.api_keys # <<>>
                    /\ \E sig \in C6_Signatures : StrIn(sig, last.arg)
    /\ Self = pre

\* The third signature of the Responses-native engine asks for a swap.
C6_Witness ==
  /\ last.op = "need_swap_api_key"
  /\ last.ret
  /\ last.arg = BodyQuota

\* What C7 says of one swap_api_key() call, pre being the key state before.
C7_Effect ==
  /\ ~InList(pre.api_key, pre.bad_api_keys) =>
       /\ bad_api_keys = Append(pre.bad_api_keys, pre.api_key)
       /\ pre.api_keys # <<>> =>
            /\ api_key = Head(pre.api_keys)
            /\ api_keys = Tail(pre.api_keys)
       /\ pre.api_keys = <<>> =>
            /\ api_key = None
            /\ api_keys = <<>>
            /\ ~last.ret
  /\ InList(pre.api_key, pre.bad_api_keys) => Self = pre
  /\ last.ret <=> (api_key # None /\ Self # pre)

\* C7 as stated, for every engine: swap_api_key() marks an active key that
\* is not yet bad, makes the front key of the queue (if any) the active key,
\* returns true exactly when a new active key was obtained, and with an
\* empty queue leaves no active key and returns false.
C7_AsStated == last.op = "swap_api_key" => C7_Effect

\* C7, amended: the same, for an engine that needs an API key; on an engine
\* that needs none the queue is left as it is, no key becomes active and
\* the call returns false.
C7_SwapApiKey ==
  last.op = "swap_api_key" =>
    IF need_api_key THEN C7_Effect
    ELSE /\ api_keys = pre.api_keys
         /\ api_key = None
         /\ ~last.ret

\* A swap that took the front key of the queue, and one that found it empty.
C7_Witness ==
  /\ last.op = "swap_api_key" /\ need_api_key
  /\ pre.api_keys # <<>>
  /\ last.ret
  /\ api_key = Head(pre.api_keys)

\* C8: a translate() that fails raises one of two errors.  A URLError or
\* timeout with no response gives the connectivity message followed by the
\* transport's error text; an HTTP error or a failure after the response
\* gives the parse message followed by text that holds the exception's text,
\* the HTTP error's body when it could be read, and the response's text.
C8_ErrorClassification ==
  (InTranslate /\ last.kind = "error") =>
    LET e == last.e
        no_response == ~last.got_response /\ e.type \in {"URLError", "timeout"}
    IN  /\ no_response => last.value = NetworkMessage \o e.text
        /\ ~no_response =>
             /\ startswith(last.value, ParseMessage)
             /\ ~startswith(last.value, NetworkMessage)
             /\ StrIn(e.text, last.value)
             /\ (e.type = "HTTPError" /\ e.body # <<>>) =>
                  StrIn(e.body[1], last.value)
             /\ last.got_response => StrIn(last.response, last.value)

\* An HTTP error with a readable body, raised to the caller.
C8_Witness ==
  /\ InTranslate /\ last.kind = "error"
  /\ last.e.type = "HTTPError"
  /\ last.e.body = <<BodyBusy>>

\* C9: a fragment stream is finite: whatever lines the server sends before
\* it closes the channel, the generator ends or fails.
C9_StreamFinite == (gen = "open") ~> (gen \in {"done", "failed"})

\* The lines of the classic chat protocol that are not data lines, or are
\* chunks with choices[0].delta, and the fragment each one carries.
C10_Fragment(l) ==
  IF l = SseLine(PayChunkA) THEN <<TxtA>>
  ELSE IF l = SseLine(PayChunkB) THEN <<TxtB>>
  ELSE <<>>

C10_Plain(l) ==
  l \in {LineBlank, SseLine(PayChunkA), SseLine(PayChunkB),
         SseLine(PayChunkRole)}

RECURSIVE C10_Fragments(_)
C10_Fragments(ls) ==
  IF ls = <<>> THEN <<>>
  ELSE C10_Fragment(Head(ls)) \o C10_Fragments(Tail(ls))

C10_EndsInDone(ls) == ls # <<>> /\ ls[Len(ls)] = LineDone

\* The position of the first [DONE] line of ls.
C10_Done(ls) == CHOOSE d \in 1..Len(ls) :
  ls[d] = LineDone /\ \A i \in 1..(d - 1) : ls[i] # LineDone

\* What the generator has yielded while it runs over ls, and where it ends:
\* the fragments of the lines it has handled, no line read past [DONE], and
\* the end of the stream once [DONE] is handled. A read that fails is the
\* channel's failure, not a line of the sequence.
C10_Yields(ls) ==
  LET handled == IF gen = "line" THEN pos - 1 ELSE pos
  IN  /\ yielded = C10_Fragments(SubSeq(ls, 1, handled))
      /\ pos <= C10_Done(ls)
      /\ gen = "done" => pos = C10_Done(ls)
      /\ gen = "failed" => raised.from = "readline"
      /\ (pos = C10_Done(ls) /\ gen # "line") => gen \in {"done", "failed"}

\* C10 as stated, for every line sequence that ends in `data: [DONE]`: the
\* classic chat parser yields the delta.content values of the lines before
\* [DONE], in order, and ends at [DONE].
C10_AsStated ==
  (name = "ChatGPT" /\ gen \notin {"none", "created"} /\ C10_EndsInDone(lines))
    => C10_Yields(lines)

\* The stream over a sequence whose line k is the first data: line that
\* cannot be decoded: line k fails it, and only the fragments before line k
\* are yielded.
C10_FailsAt(ls, k) ==
  LET handled == IF gen = "line" THEN pos - 1 ELSE pos
      whole == IF handled < k THEN handled ELSE k - 1
  IN  /\ yielded = C10_Fragments(SubSeq(ls, 1, whole))
      /\ pos <= k
      /\ gen # "done"
      /\ (pos = k /\ gen # "line") => gen = "failed"
      /\ (gen = "failed" /\ raised.from = "line") => pos = k

\* C10, amended: the same, when every line before the first [DONE] is a line
\* without the data: prefix or a `data: ` line whose JSON has
\* choices[0].delta; otherwise the first line that is neither fails the
\* stream.
C10_StreamTermination ==
  (name = "ChatGPT" /\ gen \notin {"none", "created"} /\ C10_EndsInDone(lines))
    => LET bad == {i \in 1..(C10_Done(lines) - 1) : ~C10_Plain(lines[i])}
       IN  IF bad = {} THEN C10_Yields(lines)
           ELSE C10_FailsAt(lines, CHOOSE k \in bad : \A i \in bad : k <= i)

\* Two fragments in order, then [DONE]: the stream has ended.
C10_Witness ==
  /\ name = "ChatGPT"
  /\ lines = <<SseLine(PayChunkB), SseLine(PayChunkA), LineDone>>
  /\ gen = "done"
  /\ yielded = <<TxtB, TxtA>>

\* C11: a failure caused by an unsupported configuration changes no key
\* state and causes no retry.  A translate() frame that fails building its
\* request raises at once, with the key state as it was and no request
\* issued; a batch wrapper rejected for a reasoning engine leaves the key
\* state as it was.
C11_NoRotation ==
  /\ []((InTranslate /\ last.kind = "error" /\ last.e.type = "TypeError")
          => (Self = pre /\ requests = <<>>))
  /\ []((last.op = "ChatgptBatchTranslate" /\ batch = "UnsupportedModel")
          => (Self = pre /\ requests = <<>> /\ pc = "idle"))
  /\ [][(pc = "translate" /\ ~get_body(Text).ok)
          => (pc' = "idle" /\ UNCHANGED keyvars /\ requests' = requests)]_vars

\* translate() failed on a language that was never set, with a key left in
\* the queue; the key state is the one the call began with.
C11_Witness ==
  /\ InTranslate /\ last.kind = "error" /\ last.e.type = "TypeError"
  /\ api_key = "K1"
  /\ api_keys = <<"K2">>

\* C12: on an engine of the classic chat family whose model id starts with
\* o1, o3 or o4 the stream flag is false whatever the configuration says,
\* and translate() returns a text, never a fragment stream; with any other
\* model id translate() returns a fragment stream exactly when the stream
\* flag is true.
C12_ReasoningId ==
  \E prefix \in {PrefixO1, PrefixO3, PrefixO4} : startswith(model, prefix)

C12_StreamOff ==
  name # "openai-new" =>
    /\ C12_ReasoningId => ~stream
    /\ (InTranslate /\ last.kind \in {"text", "stream"}) =>
         (last.kind = "stream" <=> (~C12_ReasoningId /\ stream))

\* A reasoning model configured with stream on: translate() returned a text.
C12_Witness ==
  /\ name = "ChatGPT"
  /\ config.stream = <<TRUE>>
  /\ model = ModelO3
  /\ InTranslate /\ last.kind = "text"

\* C13: the endpoint of a classic chat engine is the configured endpoint
\* when the configuration has one, else the responses endpoint for a
\* reasoning model and the chat-completions endpoint for any other; every
\* request goes there, and its body has the shape of the model's family
\* whatever the endpoint is.
C13_EndpointSelection ==
  name = "ChatGPT" =>
    /\ endpoint = IF config.endpoint # <<>> THEN config.endpoint[1]
                  ELSE IF C12_ReasoningId THEN RESPONSES_ENDPOINT
                  ELSE CHAT_ENDPOINT
    /\ \A i \in 1..Len(requests) :
         /\ requests[i].url = endpoint
         /\ ("input" \in DOMAIN requests[i].body) <=> C12_ReasoningId
         /\ ("messages" \in DOMAIN requests[i].body) <=> ~C12_ReasoningId

\* A reasoning model behind a configured endpoint: the request went to the
\* configured endpoint with the body of the Responses family.
C13_Witness ==
  /\ name = "ChatGPT"
  /\ model = ModelO3
  /\ requests # <<>>
  /\ requests[1].url = CustomEndpoint
  /\ "input" \in DOMAIN requests[1].body

\* C14: the OpenRouter variant sends its requests to the default endpoint it
\* overrides whenever the configuration supplies no endpoint.
C14_VariantDefaultEndpoint ==
  (name = "OpenRouter" /\ config.endpoint = <<>>) =>
    \A i \in 1..Len(requests) : requests[i].url = OPENROUTER_ENDPOINT

\* C15: the body of a classic chat engine has `input` and `instructions`
\* and neither `messages` nor `stream` for a reasoning model id, `messages`
\* and `stream` and no `input` for any other, and in both shapes exactly one
\* sampling key, the one `sampling` names.
C15_BodyShape ==
  name # "openai-new" =>
    \A i \in 1..Len(requests) :
      LET keys == DOMAIN requests[i].body
      IN  /\ IF C12_ReasoningId
             THEN /\ {"input", "instructions"} \subseteq keys
                  /\ keys \cap {"messages", "stream"} = {}
             ELSE /\ {"messages", "stream"} \subseteq keys
                  /\ "input" \notin keys
          /\ keys \cap {"temperature", "top_p"} =
               {ConfigGet(config, "sampling", "temperature")}

\* A reasoning model sampled by top_p: one request was built.
C15_Witness ==
  /\ name # "openai-new"
  /\ model = ModelO3
  /\ requests # <<>>
  /\ DOMAIN requests[1].body = {"model", "instructions", "input", "top_p"}
\* C16: the non-streaming result of the Responses-native engine is the
\* top-level output_text as a text (empty when it is null) when the payload
\* has that field; otherwise it is the texts, in order, of exactly the
\* content segments of type output_text or text, so that the text of a
\* reasoning segment never appears in it.
C16_Accepted(seg) == seg.type \in {"output_text", "text"} /\ seg.text # JNull

C16_Expected ==
  IF "output_text" \in DOMAIN decoded.doc
  THEN IF decoded.doc.output_text = JNull THEN <<>> ELSE decoded.doc.output_text
  ELSE Join([k \in 1..Len(decoded.segs) |->
               IF C16_Accepted(decoded.segs[k]) THEN decoded.segs[k].text ELSE <<>>])

C16_ReasoningFiltered ==
  parsed # NoResult =>
    /\ parsed = Return(C16_Expected)
    /\ decoded.kind = "output" => \A k \in 1..Len(parsed.value) : parsed.value[k] # "c"

C16_Witness ==
  /\ parsed # NoResult
  /\ decoded.kind = "output"
  /\ Len(decoded.doc.output) = 2
  /\ decoded.segs = <<[type |-> "reasoning", text |-> TxtC], [type |-> "text", text |-> TxtB]>>
  /\ parsed.value = TxtB

C16_WitnessTop ==
  /\ parsed # NoResult
  /\ decoded.kind = "top"
  /\ decoded.doc.output_text = JNull
  /\ decoded.segs # <<>>
  /\ parsed.value = <<>>

\* C17: wrapping a classic chat engine that is not reasoning-classified
\* succeeds and leaves it with streaming off; wrapping a reasoning-classified
\* engine fails with UnsupportedModel and leaves the engine's key state and
\* stream flag as they were.
C17_BatchWrapper ==
  last.op = "ChatgptBatchTranslate" =>
    IF is_reasoning
    THEN batch = "UnsupportedModel" /\ Self = pre /\ stream = last.stream
    ELSE batch = "constructed" /\ ~stream /\ Self = pre

C17_Witness ==
  /\ last.op = "ChatgptBatchTranslate"
  /\ is_reasoning
  /\ config.stream = <<TRUE>>
  /\ batch = "UnsupportedModel"

C17_WitnessChat ==
  /\ last.op = "ChatgptBatchTranslate"
  /\ ~is_reasoning
  /\ last.stream
  /\ batch = "constructed"
  /\ ~stream

\* C18: for instances constructed from the same configuration, under every
\* interleaving of translate() failures and swap_api_key() calls on them, a
\* step of one instance changes neither another instance's active key,
\* queue or bad-key list nor the configured key list; the queue is a list
\* object of its own.
C18_Untouched ==
  /\ heap'[1] = heap[1]
  /\ \A j \in 1..Len(insts) :
       j # acting' => Load(heap', insts'[j]) = Load(heap, insts[j])

C18_PerInstance ==
  /\ [](heap[1] = ConfigGet(config, "api_keys", <<>>))
  /\ [](\A j \in 1..Len(insts) : insts[j].api_keys # 1)
  /\ [][C18_Untouched]_vars

C18_Witness ==
  /\ Len(insts) = 2
  /\ acting = 1
  /\ heap[1] = <<"K1", "K2">>
  /\ Load(heap, insts[1]) = [api_keys |-> <<>>, bad_api_keys |-> <<"K1">>, api_key |-> "K2"]
  /\ Load(heap, insts[2]) = [api_keys |-> <<"K2">>, bad_api_keys |-> <<>>, api_key |-> "K1"]

\* C19: an engine with need_api_key true and an empty key list has no
\* active key after construction; its translate() call still issues the
\* transport request, with no Authorization value populated; a failure of
\* that request is surfaced without any key swap.
C19_NoKeys == need_api_key /\ ConfiguredKeys = <<>>

\* The parts about the key state and the request being issued: a call
\* whose languages are set (get_body does not raise) makes one request.
C19_RequestIssued ==
  C19_NoKeys =>
    /\ api_key = None /\ api_keys = <<>>
    /\ (InTranslate /\ pc = "idle" /\ ~(last.kind = "error" /\ last.e.type = "TypeError"))
         => Len(requests) = 1
    /\ (InTranslate /\ last.kind = "error") => Self = pre

\* An Authorization value that carries no credential: no header value at
\* all, or the scheme alone.
C19_Unpopulated(value) == value \in {<<>>, <<Bearer>>}

C19_NoKeysConfigured ==
  /\ C19_RequestIssued
  /\ C19_NoKeys =>
       \A i \in 1..Len(requests) : C19_Unpopulated(requests[i].Authorization)

C19_Witness ==
  /\ C19_NoKeys
  /\ InTranslate /\ last.kind = "error" /\ last.e.type = "HTTPError"
  /\ Len(requests) = 1
  /\ requests[1].Authorization = <<Bearer, None>>

\* The fragment each line of the Responses protocol carries: the non-empty
\* delta of an output_text.delta or message.delta event, nothing otherwise.
C20_Fragment(l) ==
  IF l = SseLine(PayEvtDelta) THEN <<TxtA>>
  ELSE IF l = SseLine(PayEvtMessage) THEN <<TxtB>>
  ELSE <<>>

RECURSIVE C20_Fragments(_)
C20_Fragments(ls) ==
  IF ls = <<>> THEN <<>>
  ELSE C20_Fragment(Head(ls)) \o C20_Fragments(Tail(ls))

C20_Ends(l) ==
  l \in {LineDone, SseLine(PayEvtCompleted), SseLine(PayEvtSuccess)}

C20_Fails(l) == l \in {SseLine(PayEvtError), SseLine(PayEvtErrorBare)}

C20_Message(l) ==
  IF l = SseLine(PayEvtError) THEN BodyQuota ELSE ReprEvtErrorBare

\* The position of the first line of ls that ends or fails the stream, or
\* one past the end of ls when there is none.
C20_First(ls) ==
  LET stops == {i \in 1..Len(ls) : C20_Ends(ls[i]) \/ C20_Fails(ls[i])}
  IN  IF stops = {} THEN Len(ls) + 1
      ELSE CHOOSE k \in stops : \A i \in stops : k <= i

\* What the generator has yielded while it runs over ls, and how it stops.
\* A read that fails is the channel's failure, not a line of the sequence;
\* the empty line in hand at the end of ls is the read of the closed channel
\* or a blank last line, which carries no fragment.
C20_Yields(ls) ==
  LET handled == IF gen = "line" /\ ~(line = <<>> /\ pos = Len(ls))
                 THEN pos - 1 ELSE pos
      first == C20_First(ls)
  IN  /\ yielded = C20_Fragments(SubSeq(ls, 1, handled))
      /\ pos <= first
      /\ gen = "done" => (pos = first /\ first <= Len(ls) /\ C20_Ends(ls[first]))
      /\ (gen = "failed" /\ raised.from = "line") =>
           /\ pos = first /\ first <= Len(ls) /\ C20_Fails(ls[first])
           /\ raised.type = "Exception"
           /\ raised.text = C20_Message(ls[first])
      /\ (pos = first /\ gen # "line") =>
           gen = IF C20_Ends(ls[first]) THEN "done" ELSE "failed"

\* C20: for every sequence of SSE lines, the Responses-native stream yields
\* exactly the non-empty deltas of the output_text.delta and message.delta
\* events, in arrival order, up to the first [DONE], completed event (the
\* stream ends) or error event (the stream fails with the event's message,
\* or with the event as text when it has none); no other delta is yielded.
C20_AsStated ==
  (name = "openai-new" /\ gen \notin {"none", "created"}) => C20_Yields(lines)

\* The same for the sequences whose data: lines all have the space after the
\* colon, up to the line that stops the stream.
C20_Spaced(ls) ==
  \A i \in 1..Len(ls) : i < C20_First(ls) => ls[i] # LineNoSpace

C20_StreamEvents ==
  (name = "openai-new" /\ gen \notin {"none", "created"} /\ C20_Spaced(lines))
    => C20_Yields(lines)

C20_Witness ==
  /\ name = "openai-new"
  /\ lines = <<SseLine(PayEvtMessage), SseLine(PayEvtReasoning), SseLine(PayEvtErrorBare)>>
  /\ gen = "failed"
  /\ yielded = <<TxtB>>
  /\ raised.text = ReprEvtErrorBare

\* The data: lines of the classic protocol that cannot be decoded, and the
\* text of the exception each one raises.
C21_Undecodable(l) == l \in {LineNoSpace, SseLine(PayBad)}

C21_RawText(l) == IF l = LineNoSpace THEN ErrIndex ELSE ErrJson

\* The position of the first line of ls that ends or fails the stream, or
\* one past the end of ls when there is none.
C21_First(ls) ==
  LET stops == {i \in 1..Len(ls) : ls[i] = LineDone \/ C21_Undecodable(ls[i])}
  IN  IF stops = {} THEN Len(ls) + 1
      ELSE CHOOSE k \in stops : \A i \in stops : k <= i

\* The fragments yielded are those of the lines handled, once each and in
\* order, however many reads were incomplete; a failed stream failed on a
\* read, with the parse message and the text of the read failure, or on the
\* first undecodable data: line, with the text of its exception.
C21_Policy ==
  LET handled == IF gen = "line" /\ ~(line = <<>> /\ pos = Len(lines))
                 THEN pos - 1 ELSE pos
      first == C21_First(lines)
  IN  /\ yielded = C10_Fragments(SubSeq(lines, 1, handled))
      /\ pos <= first
      /\ (gen = "failed" /\ raised.from = "readline") =>
           /\ raised.type = "Exception"
           /\ raised.text = ParseMessage \o ErrRead
      /\ (gen = "failed" /\ raised.from = "line") =>
           /\ pos = first /\ first <= Len(lines) /\ C21_Undecodable(lines[first])
           /\ StrIn(C21_RawText(lines[first]), raised.text)
      /\ (pos = first /\ gen # "line" /\ C21_Undecodable(lines[first])) =>
           gen = "failed"

\* An incomplete read leaves the generator reading, with nothing consumed
\* and nothing yielded; a failed stream stays failed and yields no more.
C21_Steps ==
  /\ incomplete' # incomplete =>
       (gen = "reading" /\ gen' = "reading" /\ pos' = pos /\ yielded' = yielded)
  /\ gen = "failed" => (gen' = "failed" /\ yielded' = yielded /\ pos' = pos)

C21_WitnessRead ==
  /\ name = "ChatGPT"
  /\ incomplete = 1
  /\ gen = "failed"
  /\ raised.from = "readline"
  /\ yielded = <<TxtA, TxtB>>

\* The whole run of the Responses-native parser over the lines ls, read
\* without failure: the fragments it yields, how it stops ("eof" when the
\* lines run out before it does) and the text of the exception if it fails.
RECURSIVE C22_Run(_)
C22_Run(ls) ==
  IF ls = <<>> THEN [yielded |-> <<>>, end |-> "eof", text |-> <<>>]
  ELSE LET r == new_parse_line(strip(Head(ls)))
           rest == C22_Run(Tail(ls))
       IN  CASE r.act = "yield" -> [rest EXCEPT !.yielded = <<r.value>> \o @]
             [] r.act = "continue" -> rest
             [] r.act = "break" -> [yielded |-> <<>>, end |-> "done", text |-> <<>>]
             [] r.act = "raise" ->
                  [yielded |-> <<>>, end |-> "failed", text |-> r.exc.text]

C22_Malformed(l) == l = SseLine(PayBad)

C22_Removed(ls) == SelectSeq(ls, LAMBDA l : ~C22_Malformed(l))

C22_IsPrefix(a, b) == Len(a) <= Len(b) /\ SubSeq(b, 1, Len(a)) = a

\* The stream over lines has reached its end: it ended, a line failed it, or
\* the channel is exhausted.
C22_Over ==
  \/ gen = "done"
  \/ gen = "failed" /\ raised.from = "line"
  \/ gen = "line" /\ line = <<>> /\ pos = Len(lines)

\* C22: the Responses-native stream skips a data: payload that cannot be
\* decoded and goes on: the fragments yielded for a line sequence, and the
\* way the stream stops, are those of the same sequence with the malformed
\* lines removed.
C22_MalformedSkipped ==
  /\ []((name = "openai-new" /\ (gen = "suspended" \/ C22_Over)) =>
         LET clean == C22_Run(C22_Removed(lines))
         IN  /\ C22_IsPrefix(yielded, clean.yielded)
             /\ C22_Over => yielded = clean.yielded
             /\ gen = "done" => clean.end = "done"
             /\ (gen = "failed" /\ raised.from = "line") =>
                  (clean.end = "failed" /\ clean.text = raised.text))
  /\ [][(name = "openai-new" /\ gen = "line" /\ line = strip(SseLine(PayBad)))
          => (gen' = "reading" /\ yielded' = yielded)]_vars

\* A malformed payload between two deltas: both deltas were yielded.
C22_Witness ==
  /\ name = "openai-new"
  /\ lines = <<SseLine(PayEvtDelta), SseLine(PayBad), SseLine(PayEvtMessage)>>
  /\ C22_Over
  /\ yielded = <<TxtA, TxtB>>

\* The texts of the segments segs, in order; a segment without a text adds
\* nothing.
RECURSIVE C23_Texts(_)
C23_Texts(segs) ==
  IF segs = <<>> THEN <<>>
  ELSE (IF "text" \in DOMAIN Head(segs) THEN Head(segs).text ELSE <<>>)
       \o C23_Texts(Tail(segs))

C23_Matches(entry) ==
  /\ "type" \in DOMAIN entry /\ entry.type = "message"
  /\ "role" \in DOMAIN entry /\ entry.role = "assistant"

\* What parsing the decoded payload doc is to give.
C23_Expected(doc) ==
  LET out == IF "output" \in DOMAIN doc THEN doc.output ELSE <<>>
      hits == {i \in 1..Len(out) : C23_Matches(out[i])}
  IN  IF hits = {} THEN Raise("ValueError", ErrNoAssistant)
      ELSE LET first == CHOOSE i \in hits : \A j \in hits : i <= j
           IN  Return(C23_Texts(out[first].content))

\* A translate() frame whose response had no assistant message went through
\* the except block: it rotated the key and recursed when the text held an
\* error signature and a key was left, and raised the unexpected-result
\* error otherwise.
C23_Handled ==
  /\ (InTranslate /\ last.kind = "pending" /\ "cause" \in DOMAIN last
        /\ last.cause = "ValueError") =>
       /\ StrIn(Sig401, last.response)
       /\ requests # <<>>
       /\ api_key = PreKeys[Len(requests) + 1]
       /\ bad_api_keys = pre.bad_api_keys \o SubSeq(PreKeys, 1, Len(requests))
  /\ (InTranslate /\ last.kind = "error" /\ last.e.type = "ValueError") =>
       /\ last.e.text = ErrNoAssistant
       /\ last.got_response
       /\ last.value = ParseMessage \o Sep \o TbPrefix \o ErrNoAssistant
                         \o Sep \o last.response
       /\ api_keys = <<>> \/ ~StrIn(Sig401, last.response)
       /\ api_key = PreKeys[Len(requests)]
       /\ bad_api_keys = pre.bad_api_keys \o SubSeq(PreKeys, 1, Len(requests) - 1)
  /\ (InTranslate /\ last.kind = "text") =>
       (last.response = RawRespOk /\ last.value = TxtBonjour)

\* C23: the result of the classic engine for a reasoning model is the texts,
\* in order, of every content segment of the first output entry of type
\* message and role assistant; later matching entries are ignored; when no
\* entry matches, parsing fails and the failure goes through the except
\* block of translate(): key rotation if it applies, else the
\* unexpected-result error.
C23_ReasoningResult ==
  /\ parsed # NoResult => parsed = C23_Expected(decoded.doc)
  /\ C23_Handled

\* Two assistant messages: the first one is the result; and a response
\* without an assistant message made translate() rotate to the second key.
C23_Witness ==
  /\ parsed # NoResult /\ parsed.ok
  /\ Len(decoded.doc.output) = 2
  /\ C23_Matches(decoded.doc.output[1]) /\ C23_Matches(decoded.doc.output[2])
  /\ Len(decoded.doc.output[1].content) = 3
  /\ decoded.doc.output[2].content = <<[type |-> "output_text", text |-> TxtB]>>
  /\ parsed.value = TxtC \o TxtA
  /\ InTranslate /\ last.kind = "pending" /\ "cause" \in DOMAIN last
  /\ last.cause = "ValueError"
  /\ api_key = "K2"

C23_WitnessRaised ==
  /\ InTranslate /\ last.kind = "error" /\ last.e.type = "ValueError"
  /\ last.response = RawErr401
  /\ Len(requests) = 2
  /\ parsed # NoResult /\ ~parsed.ok

\* The fragment a line carries, for the engine at hand.
C24_Fragment(l) ==
  IF name = "openai-new" THEN C20_Fragment(l) ELSE C10_Fragment(l)

\* The lines among the first n of ls that carry a fragment.
C24_Carriers(ls, n) == {i \in 1..n : C24_Fragment(ls[i]) # <<>>}

\* The generator at rest: not yet started, or suspended at a yield, or over.
C24_AtRest == gen \in {"created", "open", "suspended", "done", "failed"}

\* When translate() has returned the stream nothing is read; while the
\* consumer holds a fragment the lines read are those up to the line that
\* carried it, one carrier per fragment pulled.
C24_ReadSoFar ==
  /\ gen \in {"created", "open"} => (pos = 0 /\ yielded = <<>> /\ line = <<>>)
  /\ gen = "suspended" =>
       /\ pos \in 1..Len(lines)
       /\ C24_Fragment(lines[pos]) = <<yielded[Len(yielded)]>>
       /\ Cardinality(C24_Carriers(lines, pos)) = Len(yielded)

\* A line is read only while a pull is being served; a fragment suspends the
\* generator; at rest nothing is read or yielded, and only the consumer's
\* pull (or the arrival of the response body) moves the generator.
C24_Steps ==
  /\ pos' # pos => (gen = "reading" /\ pos' = pos + 1)
  /\ yielded' # yielded => (gen = "line" /\ gen' = "suspended")
  /\ (C24_AtRest /\ gen' # "none") =>
       /\ pos' = pos /\ yielded' = yielded /\ line' = line
       /\ gen' \in {gen, "reading", "open"}
       /\ gen' = "reading" => gen \in {"open", "suspended"}

\* C24: no fragment is buffered ahead of the consumer's pull: when
\* translate() returns a fragment stream no line has been read; the lines
\* read are those up to and including the line that produced the fragment
\* pulled last; a consumer that stops pulling causes no further reads.
C24_LazyStreaming ==
  /\ []C24_ReadSoFar
  /\ [][C24_Steps]_vars

\* The consumer holds the first fragment: the blank line and its carrier are
\* read, the line after them is not.
C24_Witness ==
  /\ name = "ChatGPT"
  /\ lines = <<LineBlank, SseLine(PayChunkA), SseLine(PayChunkB)>>
  /\ gen = "suspended"
  /\ pos = 2
  /\ yielded = <<TxtA>>

C24_WitnessNative ==
  /\ name = "openai-new"
  /\ lines = <<SseLine(PayEvtReasoning), SseLine(PayEvtDelta), SseLine(PayEvtMessage)>>
  /\ gen = "suspended"
  /\ pos = 2
  /\ yielded = <<TxtA>>

\* One frame of translate(): a frame that raises to the caller leaves the
\* active key, the queue and the bad-key list as it found them; so does any
\* frame of an engine that needs no key; a frame that starts with the queue
\* empty, the active key being the last one, marks no key bad.
C25_Frame ==
  pc = "translate" =>
    /\ (pc' = "idle" /\ last'.kind = "error") => UNCHANGED keyvars
    /\ ~need_api_key => UNCHANGED keyvars
    /\ api_keys = <<>> => UNCHANGED keyvars

\* C25: when translate() raises to the caller the active key, the queue and
\* the bad-key list are as they were when the failing attempt was issued;
\* the last remaining key is never marked bad by translate().
C25_FrameEffect == [][C25_Frame]_vars

\* The second and last key failed with an error signature: translate()
\* raised and the key is active still, not marked bad.
C25_Witness ==
  /\ InTranslate /\ last.kind = "error"
  /\ last.e.type = "HTTPError" /\ last.e.text = Http401
  /\ Len(requests) = 2
  /\ api_key = "K2"
  /\ api_keys = <<>>
  /\ bad_api_keys = <<"K1">>

\* Once translate() has returned the fragment stream, no step of its
\* consumption changes the key state, issues a request or re-enters
\* translate(); the outcome of translate() stays the stream.
C26_Step ==
  (gen # "none" /\ gen' # "none") =>
    /\ UNCHANGED <<keyvars, requests, activated, last>>
    /\ pc' = "idle"

\* C26: with streaming on, translate() returns the fragment stream as soon
\* as the transport has opened the response, and a failure raised later,
\* while the consumer pulls, is raised to the consumer as it is: no key is
\* marked bad, the active key stays, no request is reissued, even when the
\* text of the failure holds an error signature and keys remain.
C26_StreamFailure ==
  /\ [](gen # "none" => (InTranslate /\ last.kind = "stream" /\ pc = "idle"))
  /\ [](gen = "created" => (pos = 0 /\ lines = <<>>))
  /\ [](gen = "failed" =>
          /\ raised.type \in {"Exception", "IndexError", "JSONDecodeError"}
          /\ raised.from = "readline" => raised.text = ParseMessage \o ErrRead)
  /\ [][C26_Step]_vars

\* A response.error event whose message holds a signature, with a key left in
\* the queue: the stream failed, the first key is active and not marked bad,
\* one request was issued.
C26_Witness ==
  /\ name = "openai-new"
  /\ gen = "failed"
  /\ raised.text = BodyQuota
  /\ need_swap_api_key(Self, raised.text).ret
  /\ api_key = "K1"
  /\ api_keys = <<"K2">>
  /\ bad_api_keys = <<>>
  /\ Len(requests) = 1

====
